---- MODULE Spec2Model ----
(***************************************************************************)
(* A model of the evaluation harness of peft-llm-code:                     *)
(*   src/test.py      EndOfFunctionCriteria, remove_last_block,            *)
(*                    test_human_eval, test_conala_code_generation         *)
(*   src/generate.py  prepare_input, generate, compute_metrics, main       *)
(*   src/utils.py     load_odex_test_dataset                               *)
(* Text is a sequence of one-character strings; a token decodes to such a  *)
(* sequence.  Each routine has its own specification (SpecBlock, SpecStop, *)
(* SpecMain, SpecOdex, SpecConala); the variables of the routines a        *)
(* specification does not run stay at their idle values.  SpecOutput runs  *)
(* main over the arguments that name its output files.                     *)
(***************************************************************************)
EXTENDS Integers, Sequences, FiniteSets, TLC

VARIABLES
    \* remove_last_block (src/test.py:155-160)
    string, string_list, block_result, block_pc,
    \* model.generate under EndOfFunctionCriteria in test_human_eval (src/test.py:183-204)
    input_ids, start_length, criteria_result, gen_pc, gen_string_lists,
    \* load_odex_test_dataset (src/utils.py:57-64)
    odex_test, conala_train_nl, odex_dataset, odex_pc,
    \* main of src/generate.py: the parsed arguments, the dataset on disk, the
    \* test split being iterated, the knowledge base, the generator's position
    \* and last prompt, the responses, the metrics and the responses file;
    \* the output directory, the file suffix and the paths opened for writing
    args, disk, dataset, knowledge_base_vectors, main_pc, sample_idx,
    retrieved_docs, example, yielded, responses, metrics, responses_file,
    output_dir, file_suffix, opened,
    \* test_conala_code_generation (src/test.py:62-150): the arguments, the
    \* preprocessed test split, the position of the data loader, the decoded
    \* predictions and references, the two files
    conala_args, test_dataset, batch_start, predictions, references,
    fpred, fref, conala_pc

blockVars == <<string, string_list, block_result, block_pc>>
stopVars == <<input_ids, start_length, criteria_result, gen_pc, gen_string_lists>>
odexVars == <<odex_test, conala_train_nl, odex_dataset, odex_pc>>
fileVars == <<output_dir, file_suffix, opened>>
mainVars ==
    <<args, disk, dataset, knowledge_base_vectors, main_pc, sample_idx,
      retrieved_docs, example, yielded, responses, metrics, responses_file,
      fileVars>>
conalaVars ==
    <<conala_args, test_dataset, batch_start, predictions, references,
      fpred, fref, conala_pc>>
vars == <<blockVars, stopVars, odexVars, mainVars, conalaVars>>

NL == "\n"

----------------------------------------------------------------------------
(* Generic helpers on text and lists.                                      *)

Min(a, b) == IF a <= b THEN a ELSE b

\* All sequences over S of length 0..n.
SeqsUpTo(S, n) == UNION {[1..k -> S] : k \in 0..n}

\* "".join(list): the concatenation of a list of texts.
RECURSIVE Join(_)
Join(list) == IF list = <<>> THEN <<>> ELSE Head(list) \o Join(Tail(list))

\* list[:-k] of Python for k > 0: all but the last k elements, [] when shorter.
DropLast(list, k) == SubSeq(list, 1, Len(list) - k)

\* list[k:] of Python for k >= 0.
DropFirst(list, k) == SubSeq(list, k + 1, Len(list))

\* m occurs in s starting at position i.
OccursAt(s, i, m) ==
    /\ i >= 1
    /\ i + Len(m) - 1 <= Len(s)
    /\ SubSeq(s, i, i + Len(m) - 1) = m

\* Python's `m in s` for strings.
Contains(s, m) == \E i \in 1..(Len(s) + 1) : OccursAt(s, i, m)

----------------------------------------------------------------------------
(* remove_last_block                                                       *)

HUMAN_EVAL_EOF_STRINGS ==
    << <<NL, "c", "l", "a", "s", "s">>,
       <<NL, "d", "e", "f">>,
       <<NL, "#">>,
       <<NL, "@">>,
       <<NL, "p", "r", "i", "n", "t">>,
       <<NL, "i", "f">> >>

\* The regex "(m1|m2|...)" tried at position i: the index of the first
\* alternative, in the order written, that matches there; 0 when none does.
RECURSIVE FirstAlternative(_, _, _, _)
FirstAlternative(alts, s, i, k) ==
    IF k > Len(alts) THEN 0
    ELSE IF OccursAt(s, i, alts[k]) THEN k
    ELSE FirstAlternative(alts, s, i, k + 1)

\* re.split("(m1|m2|...)", s): scan left to right; at each match emit the text
\* since the previous match and the matched marker (the capture group), and go
\* on after the match; the text after the last match closes the list.
RECURSIVE ReSplitFrom(_, _, _, _)
ReSplitFrom(alts, s, i, start) ==
    IF i > Len(s) THEN << SubSeq(s, start, Len(s)) >>
    ELSE LET k == FirstAlternative(alts, s, i, 1) IN
         IF k = 0 THEN ReSplitFrom(alts, s, i + 1, start)
         ELSE << SubSeq(s, start, i - 1), alts[k] >>
              \o ReSplitFrom(alts, s, i + Len(alts[k]), i + Len(alts[k]))

ReSplit(alts, s) == ReSplitFrom(alts, s, 1, 1)

\* A slip: join all but the last element only.
remove_last_block_keeps_marker(s) ==
    Join(DropLast(ReSplit(HUMAN_EVAL_EOF_STRINGS, s), 1))

\* A slip: on a text without marker the text is returned unchanged.
remove_last_block_keeps_unmarked(s) ==
    LET l == ReSplit(HUMAN_EVAL_EOF_STRINGS, s) IN
    IF Len(l) < 2 THEN Join(l) ELSE Join(DropLast(l, 2))

remove_last_block(s) ==
    Join(DropLast(ReSplit(HUMAN_EVAL_EOF_STRINGS, s), 2))

\* Bound: the longest input text of remove_last_block.
MaxStringLen == 5

\* The characters the input texts are drawn from.
BlockAlphabet == {NL, "#", "@", "i", "f", "x"}

BlockIdle ==
    /\ string = <<>>
    /\ string_list = <<>>
    /\ block_result = <<>>
    /\ block_pc = "idle"

BlockInit ==
    /\ string \in SeqsUpTo(BlockAlphabet, MaxStringLen)
    /\ string_list = <<>>
    /\ block_result = <<>>
    /\ block_pc = "call"

RemoveLastBlock ==
    /\ block_pc = "call"
    /\ string_list' = ReSplit(HUMAN_EVAL_EOF_STRINGS, string)
    /\ block_result' = remove_last_block(string)
    /\ block_pc' = "returned"
    /\ UNCHANGED string

----------------------------------------------------------------------------
(* EndOfFunctionCriteria and the generation loop of test_human_eval        *)

\* Token ids.  The end-of-sequence token is also the padding token
\* (load_model_and_tokenizer sets pad_token_id to eos_token_id).
EOS_TOKEN == 0
TOK_X == 1
TOK_NL == 2
TOK_HASH == 3

Vocabulary == {EOS_TOKEN, TOK_X, TOK_NL, TOK_HASH}

SpecialTokens == {EOS_TOKEN}

\* The text of one token.
TokenText(t) ==
    CASE t = EOS_TOKEN -> << "<|endoftext|>" >>
      [] t = TOK_X -> << "x" >>
      [] t = TOK_NL -> << NL >>
      [] t = TOK_HASH -> << "#" >>

\* tokenizer.decode(ids, skip_special_tokens=skip): the texts of the tokens,
\* concatenated, the special tokens left out when skip is set.
RECURSIVE Decode(_, _)
Decode(ids, skip) ==
    IF ids = <<>> THEN <<>>
    ELSE (IF skip /\ Head(ids) \in SpecialTokens THEN <<>> ELSE TokenText(Head(ids)))
         \o Decode(Tail(ids), skip)

\* tokenizer.batch_decode(batch): one text per row, special tokens kept.
BatchDecode(batch) == [r \in DOMAIN batch |-> Decode(batch[r], FALSE)]

\* any([stop_string in decoded_generation for stop_string in eof_strings])
AnyStopString(decoded_generation, eof_strings) ==
    \E k \in DOMAIN eof_strings : Contains(decoded_generation, eof_strings[k])

\* A slip: the rows are decoded from position 0, the prompt included.
EndOfFunctionCriteria_call_whole_row(start, eof_strings, ids) ==
    LET decoded_generations == BatchDecode(ids) IN
    \A r \in DOMAIN decoded_generations :
        AnyStopString(decoded_generations[r], eof_strings)

\* EndOfFunctionCriteria.__call__(input_ids, scores)
EndOfFunctionCriteria_call(start, eof_strings, ids) ==
    LET decoded_generations ==
            BatchDecode([r \in DOMAIN ids |-> DropFirst(ids[r], start)])
        done == [r \in DOMAIN decoded_generations |->
                    AnyStopString(decoded_generations[r], eof_strings)]
    IN  \A r \in DOMAIN done : done[r]

\* num_return_sequences of model.generate in test_human_eval.
NUM_RETURN_SEQUENCES == 2

\* Bound: args.human_eval_max_new_tokens.
MaxNewTokens == 3

\* The tokenized prompts (e["prompt"] + "\n") the loop is run on.
Prompts ==
    { << TOK_X, TOK_NL >>,
      << TOK_NL, TOK_HASH, TOK_NL >>,
      << TOK_NL >> }

StopIdle ==
    /\ input_ids = <<>>
    /\ start_length = 0
    /\ criteria_result = FALSE
    /\ gen_pc = "idle"
    /\ gen_string_lists = <<>>

\* model.generate starts from the prompt, repeated num_return_sequences times.
StopInit ==
    /\ \E p \in Prompts :
          /\ input_ids = [r \in 1..NUM_RETURN_SEQUENCES |-> p]
          /\ start_length = Len(p)
    /\ criteria_result = FALSE
    /\ gen_pc = "generating"
    /\ gen_string_lists = <<>>

\* A row that has produced the end-of-sequence token is finished.
Finished(row, start) ==
    \E i \in (start + 1)..Len(row) : row[i] = EOS_TOKEN

\* One step of model.generate: every row gets one more token (a finished
\* row gets the padding token), then the stopping criteria are asked.
GenerateStep ==
    /\ gen_pc = "generating"
    /\ \E next \in [1..NUM_RETURN_SEQUENCES -> Vocabulary] :
          /\ \A r \in 1..NUM_RETURN_SEQUENCES :
                Finished(input_ids[r], start_length) => next[r] = EOS_TOKEN
          /\ input_ids' = [r \in 1..NUM_RETURN_SEQUENCES |->
                              Append(input_ids[r], next[r])]
    /\ criteria_result' =
          EndOfFunctionCriteria_call(start_length, HUMAN_EVAL_EOF_STRINGS, input_ids')
    /\ gen_pc' =
          IF criteria_result' THEN "stopped_by_criteria"
          ELSE IF \A r \in 1..NUM_RETURN_SEQUENCES :
                      Finished(input_ids'[r], start_length)
               THEN "stopped_by_eos"
          ELSE IF Len(input_ids'[1]) - start_length >= MaxNewTokens
               THEN "stopped_by_length"
          ELSE "generating"
    /\ UNCHANGED <<start_length, gen_string_lists>>

\* The loop over the returned sequences: the new tokens are decoded without
\* the special tokens and split on the markers.
SplitGenerated ==
    /\ gen_pc \in {"stopped_by_criteria", "stopped_by_eos", "stopped_by_length"}
    /\ gen_string_lists = <<>>
    /\ gen_string_lists' =
          [r \in 1..NUM_RETURN_SEQUENCES |->
              LET new_tokens == DropFirst(input_ids[r], start_length)
                  new_tokens_decoded == Decode(new_tokens, TRUE)
              IN  ReSplit(HUMAN_EVAL_EOF_STRINGS, new_tokens_decoded)]
    /\ UNCHANGED <<input_ids, start_length, criteria_result, gen_pc>>

----------------------------------------------------------------------------
(* load_odex_test_dataset                                                  *)

\* Python's None (a column value of a dataset may be missing).
None == "<None>"

\* Python's `v in list`.
InList(v, list) == \E j \in DOMAIN list : list[j] = v

\* A slip: the intent is looked up in the dataset object (its column names),
\* not in the "nl" column, so every example passes.
NotInFineTuning_wrong_column(row, nl_column) ==
    ~InList(row.intent, << "nl", "cmd" >>)

\* lambda example: example["intent"] not in conala["nl"]
NotInFineTuning(row, nl_column) == ~InList(row.intent, nl_column)

\* dataset.filter(lambda ...): the examples the lambda accepts, in order.
RECURSIVE DatasetFilter(_, _)
DatasetFilter(rows, nl_column) ==
    IF rows = <<>> THEN <<>>
    ELSE (IF NotInFineTuning(Head(rows), nl_column) THEN << Head(rows) >> ELSE <<>>)
         \o DatasetFilter(Tail(rows), nl_column)

load_odex_test_dataset(rows, nl_column) == DatasetFilter(rows, nl_column)

\* Bounds: the sizes of the ODEX test split and of the CoNaLa train split.
MaxOdex == 3
MaxConala == 2

\* The examples of neulab/odex and the "nl" values of docprompting-conala
\* the splits are drawn from.
Intents == {"sort a list", "read a file"}
OdexExamples ==
    { [task_id |-> 1, intent |-> "sort a list"],
      [task_id |-> 2, intent |-> "read a file"],
      [task_id |-> 3, intent |-> "sort a list"] }
NlValues == Intents \cup {None}

OdexIdle ==
    /\ odex_test = <<>>
    /\ conala_train_nl = <<>>
    /\ odex_dataset = <<>>
    /\ odex_pc = "idle"

OdexInit ==
    /\ odex_test \in SeqsUpTo(OdexExamples, MaxOdex)
    /\ conala_train_nl \in SeqsUpTo(NlValues, MaxConala)
    /\ odex_dataset = <<>>
    /\ odex_pc = "call"

LoadOdexTestDataset ==
    /\ odex_pc = "call"
    /\ odex_dataset' = load_odex_test_dataset(odex_test, conala_train_nl)
    /\ odex_pc' = "returned"
    /\ UNCHANGED <<odex_test, conala_train_nl>>

----------------------------------------------------------------------------
(* generate.py: the data                                                   *)

\* str.split(sep) on a text given as a sequence of pieces, sep being one
\* piece: the components between the separators, empty ones included.
RECURSIVE StrSplitFrom(_, _, _)
StrSplitFrom(s, sep, current) ==
    IF s = <<>> THEN << current >>
    ELSE IF Head(s) = sep THEN << current >> \o StrSplitFrom(Tail(s), sep, <<>>)
    ELSE StrSplitFrom(Tail(s), sep, Append(current, Head(s)))

StrSplit(s, sep) == StrSplitFrom(s, sep, <<>>)

\* list[-1] of Python.
LastOf(list) == list[Len(list)]

Msg(role, content) == [role |-> role, content |-> content]

\* The references the rows are drawn with, and the lists of solutions of the
\* APPS rows.
References == {"r1", "r2", "r3"}
SolutionLists == {<< r, "r0" >> : r \in References}

\* json.dumps of a list of two solutions, as the "solutions" column of APPS
\* holds it, and json.loads of such a text.
EncodedList(list) == "[" \o list[1] \o ", " \o list[2] \o "]"
JsonLoads(v) == CHOOSE list \in SolutionLists : EncodedList(list) = v

\* A row of the dataset of the given kind: its instruction and reference
\* columns and its chat messages.
Row(kind, q, r, msgs) ==
    CASE kind = "conala" -> [nl |-> q, cmd |-> r, messages |-> msgs]
      [] kind = "codealpaca" -> [prompt |-> q, completion |-> r, messages |-> msgs]
      [] kind = "apps" ->
            [question |-> q, solutions |-> EncodedList(<< r, "r0" >>), messages |-> msgs]

\* The rows the test and train splits are drawn from.  The first train row
\* has the content of the first test row.
TestPool(kind) ==
    { Row(kind, "q1", "r1", << Msg("user", "q1"), Msg("assistant", "r1") >>),
      Row(kind, "q2", "r2",
          << Msg("system", "sys"), Msg("user", "q2"), Msg("assistant", "r2") >>) }

TrainPool(kind) ==
    { Row(kind, "q1", "r1", << Msg("user", "q1"), Msg("assistant", "r1") >>),
      Row(kind, "q3", "r3", << Msg("user", "q3"), Msg("assistant", "r3") >>) }

\* The values of --dataset_name_or_path and the kind of dataset found there.
DatasetsOnDisk ==
    { [path |-> << "data", "/", "conala" >>, kind |-> "conala"],
      [path |-> << "conala" >>, kind |-> "conala"],
      [path |-> << "data", "/", "codealpaca" >>, kind |-> "codealpaca"],
      [path |-> << "data", "/", "apps" >>, kind |-> "apps"],
      [path |-> << "data", "/", "conala", "/" >>, kind |-> "conala"] }

\* Bounds: the sizes of the test and train splits, and the largest value of
\* --num_icl_examples and of --rag_top_k.
MaxTest == 2
MaxTrain == 2
MaxShots == 2

\* The defaults of --num_icl_examples and --rag_top_k.
DEFAULT_NUM_ICL_EXAMPLES == 3
DEFAULT_RAG_TOP_K == 1

\* The default of --icl_seed, and the default 0.2 of --temperature.  A
\* temperature is held in tenths.
DEFAULT_ICL_SEED == 42
DEFAULT_TEMPERATURE == 2

\* The values of --model_name_or_path, --peft_checkpoint_path, --temperature
\* and --icl_seed, written character by character.
BaseModel == << "h", "f", "/", "l", "m" >>
ModelPaths == { BaseModel, << "g", "p", "t" >> }
PeftCheckpoints == { << "c", "k", "p", "t", "/", "a" >> }
Temperatures == { DEFAULT_TEMPERATURE, 10 }
IclSeeds == { DEFAULT_ICL_SEED, 7 }

\* What model.generate and tokenizer.decode may give for one prompt: a text
\* that takes up the content of the last message of the prompt, bare or
\* within whitespace and further lines.
RawResponses(prompt) ==
    LET topic == IF prompt = <<>> THEN "a" ELSE LastOf(prompt).content IN
    { << topic >>,
      << " ", topic, NL, "b", NL >> }

Whitespace == {" ", NL}

\* str.strip(): leading and trailing whitespace removed.
RECURSIVE LStrip(_)
LStrip(s) == IF s # <<>> /\ Head(s) \in Whitespace THEN LStrip(Tail(s)) ELSE s
RECURSIVE RStrip(_)
RStrip(s) ==
    IF s # <<>> /\ s[Len(s)] \in Whitespace THEN RStrip(SubSeq(s, 1, Len(s) - 1)) ELSE s
Strip(s) == RStrip(LStrip(s))

\* The values of what is not set yet: an attribute of args, the knowledge
\* base (knowledge_base_vectors = None), the metrics.
UnsetName == << None >>
UnsetNumber == -1
NoKnowledgeBase == [built |-> FALSE, docs |-> <<>>]
NoMetrics == [computed |-> FALSE, scored |-> FALSE, pairs |-> <<>>]

\* The namespace parse_args returns (lines 211-230), with the attributes
\* main sets later not set yet.
ParsedArgs(path, model, peft, temp, icl, seed, n, rag, k) ==
    [dataset_name_or_path |-> path,
     model_name_or_path |-> model, peft_checkpoint_path |-> peft,
     temperature |-> temp,
     use_icl |-> icl, icl_seed |-> seed, num_icl_examples |-> n,
     use_rag |-> rag, rag_top_k |-> k,
     model_name |-> UnsetName,
     dataset_name |-> UnsetName, max_new_tokens |-> UnsetNumber,
     instruction_field |-> None, reference_field |-> None]

\* Nothing of main has been computed.
NothingComputed ==
    /\ dataset = <<>>
    /\ knowledge_base_vectors = NoKnowledgeBase
    /\ sample_idx = 0
    /\ retrieved_docs = <<>>
    /\ example = <<>>
    /\ yielded = <<>>
    /\ responses = <<>>
    /\ metrics = NoMetrics
    /\ responses_file = <<>>
    /\ output_dir = <<>>
    /\ file_suffix = <<>>
    /\ opened = <<>>

MainIdle ==
    /\ args = ParsedArgs(<<>>, <<>>, UnsetName, DEFAULT_TEMPERATURE,
                         FALSE, DEFAULT_ICL_SEED, DEFAULT_NUM_ICL_EXAMPLES,
                         FALSE, DEFAULT_RAG_TOP_K)
    /\ disk = [kind |-> None, test |-> <<>>, train |-> <<>>]
    /\ main_pc = "idle"
    /\ NothingComputed

\* The state when main is entered: the arguments as argparse gives them and
\* the dataset as it lies on disk.  The base model is run without a PEFT
\* checkpoint, at the default temperature and ICL seed.
MainInit ==
    /\ \E d \in DatasetsOnDisk, icl \in BOOLEAN, rag \in BOOLEAN :
         \E n \in (IF icl THEN 1..MaxShots ELSE {DEFAULT_NUM_ICL_EXAMPLES}),
            k \in (IF rag THEN 1..MaxShots ELSE {DEFAULT_RAG_TOP_K}) :
            /\ args = ParsedArgs(d.path, BaseModel, UnsetName, DEFAULT_TEMPERATURE,
                                 icl, DEFAULT_ICL_SEED, n, rag, k)
            /\ \E test \in SeqsUpTo(TestPool(d.kind), MaxTest),
                  train \in SeqsUpTo(TrainPool(d.kind), MaxTrain) \ {<<>>} :
                  disk = [kind |-> d.kind, test |-> test, train |-> train]
    /\ main_pc = "start"
    /\ NothingComputed

\* The state when main is entered with any of the arguments that name the
\* output files; the test split has at most MaxOutputTest rows and the train
\* split has a row for every ICL example that can be asked for.
MaxOutputTest == 1

OutputInit ==
    /\ \E d \in DatasetsOnDisk, icl \in BOOLEAN, rag \in BOOLEAN,
          model \in ModelPaths, peft \in PeftCheckpoints \cup {UnsetName},
          temp \in Temperatures :
         \E n \in (IF icl THEN 1..MaxShots ELSE {DEFAULT_NUM_ICL_EXAMPLES}),
            seed \in (IF icl THEN IclSeeds ELSE {DEFAULT_ICL_SEED}),
            k \in (IF rag THEN 1..MaxShots ELSE {DEFAULT_RAG_TOP_K}) :
            /\ args = ParsedArgs(d.path, model, peft, temp, icl, seed, n, rag, k)
            /\ \E test \in SeqsUpTo(TestPool(d.kind), MaxOutputTest),
                  row \in TrainPool(d.kind) :
                  disk = [kind |-> d.kind, test |-> test,
                          train |-> [i \in 1..MaxShots |-> row]]
    /\ main_pc = "start"
    /\ NothingComputed

\* A slip: the first component of the path is taken as the dataset name.
DatasetName_first_component(path) == Head(StrSplit(path, "/"))

\* args.dataset_name_or_path.split("/")[-1]
DatasetName(path) == LastOf(StrSplit(path, "/"))

\* args.model_name_or_path.split("/")[-1]
ModelName(path) == LastOf(StrSplit(path, "/"))

\* main, lines 116-133: the model name is set, the test split is loaded and
\* the generation configuration is set from the dataset name.
Configure ==
    /\ main_pc = "start"
    /\ dataset' = disk.test
    /\ LET name == DatasetName(args.dataset_name_or_path)
           model_name == ModelName(args.model_name_or_path) IN
       args' =
          IF name = << "conala" >>
          THEN [args EXCEPT !.model_name = model_name,
                            !.dataset_name = name, !.max_new_tokens = 128,
                            !.instruction_field = "nl", !.reference_field = "cmd"]
          ELSE IF name = << "codealpaca" >>
          THEN [args EXCEPT !.model_name = model_name,
                            !.dataset_name = name, !.max_new_tokens = 512,
                            !.instruction_field = "prompt",
                            !.reference_field = "completion"]
          ELSE [args EXCEPT !.model_name = model_name,
                            !.dataset_name = name, !.max_new_tokens = 1024,
                            !.instruction_field = "question",
                            !.reference_field = "solutions"]
    /\ main_pc' = "configured"
    /\ UNCHANGED <<disk, knowledge_base_vectors, sample_idx, retrieved_docs,
                   example, yielded, responses, metrics, responses_file>>

----------------------------------------------------------------------------
(* generate.py: main, generate, prepare_input, compute_metrics             *)

\* The columns of a dataset of the given kind; reading another column of it
\* raises KeyError.
Columns(kind) ==
    CASE kind = "conala" -> {"nl", "cmd", "messages"}
      [] kind = "codealpaca" -> {"prompt", "completion", "messages"}
      [] kind = "apps" -> {"question", "solutions", "messages"}

HasColumn(kind, field) == field \in Columns(kind)

\* The reference of an ICL example (main, lines 144-147).
IclReference(row) ==
    IF args.dataset_name = << "apps" >>
    THEN JsonLoads(row[args.reference_field])[1]
    ELSE row[args.reference_field]

\* chat_icl (main, lines 142-152): a user and an assistant message per
\* example.
RECURSIVE ChatIcl(_)
ChatIcl(examples) ==
    IF examples = <<>> THEN <<>>
    ELSE << Msg("user", Head(examples)[args.instruction_field]),
            Msg("assistant", IclReference(Head(examples))) >>
         \o ChatIcl(Tail(examples))

\* add_icl_prompt (main, lines 154-156)
add_icl_prompt(row, chat_icl) == [row EXCEPT !.messages = chat_icl \o @]

\* main, lines 136-158: the ICL examples are the first num_icl_examples rows
\* of the shuffled train split; their messages are put before every test
\* sample's messages.  select raises IndexError on a train split that is too
\* short.
BuildIclPrompt ==
    /\ main_pc = "configured"
    /\ args.use_icl
    /\ \E perm \in Permutations(1..Len(disk.train)) :
          LET shuffled == [i \in 1..Len(disk.train) |-> disk.train[perm[i]]]
              n == args.num_icl_examples
          IN  IF n > Len(shuffled)
              THEN main_pc' = "error_index" /\ UNCHANGED dataset
              ELSE IF ~HasColumn(disk.kind, args.instruction_field)
                      \/ ~HasColumn(disk.kind, args.reference_field)
              THEN main_pc' = "error_key" /\ UNCHANGED dataset
              ELSE LET chat_icl == ChatIcl(SubSeq(shuffled, 1, n)) IN
                   /\ dataset' = [i \in DOMAIN dataset |->
                                     add_icl_prompt(dataset[i], chat_icl)]
                   /\ main_pc' = "generating"
    /\ UNCHANGED <<args, disk, knowledge_base_vectors, sample_idx, retrieved_docs,
                   example, yielded, responses, metrics, responses_file>>

\* LangchainDocument(page_content=..., metadata={"code": ...})
LangchainDocument(page_content, code) ==
    [page_content |-> page_content, metadata |-> [code |-> code]]

\* main, lines 159-177: the knowledge base holds one document per train row.
BuildKnowledgeBase ==
    /\ main_pc = "configured"
    /\ ~args.use_icl
    /\ args.use_rag
    /\ IF ~HasColumn(disk.kind, args.instruction_field)
          \/ ~HasColumn(disk.kind, args.reference_field)
       THEN main_pc' = "error_key" /\ UNCHANGED knowledge_base_vectors
       ELSE /\ knowledge_base_vectors' =
                  [built |-> TRUE,
                   docs |-> [i \in DOMAIN disk.train |->
                               LangchainDocument(disk.train[i][args.instruction_field],
                                                 disk.train[i][args.reference_field])]]
            /\ main_pc' = "generating"
    /\ UNCHANGED <<args, disk, dataset, sample_idx, retrieved_docs,
                   example, yielded, responses, metrics, responses_file>>

\* main with neither --use_icl nor --use_rag: nothing is built.
NoAugmentation ==
    /\ main_pc = "configured"
    /\ ~args.use_icl
    /\ ~args.use_rag
    /\ main_pc' = "generating"
    /\ UNCHANGED <<args, disk, dataset, knowledge_base_vectors, sample_idx,
                   retrieved_docs, example, yielded, responses, metrics,
                   responses_file>>

\* similarity_search(query, k): the k documents nearest to the query (all of
\* them when there are fewer), in an order the embedding decides.
SimilaritySearch(kb, k) ==
    LET m == Min(k, Len(kb.docs))
        picks == {f \in [1..m -> DOMAIN kb.docs] :
                     \A i, j \in 1..m : i # j => f[i] # f[j]}
    IN  {[i \in 1..m |-> kb.docs[f[i]]] : f \in picks}

\* chat_docs (prepare_input, lines 25-30)
RECURSIVE ChatDocs(_)
ChatDocs(docs) ==
    IF docs = <<>> THEN <<>>
    ELSE << Msg("user", Head(docs).page_content),
            Msg("assistant", Head(docs).metadata.code) >>
         \o ChatDocs(Tail(docs))

\* A slip: the whole list of messages is returned, the last one included.
prepare_input_keeps_answer(sample, docs) ==
    IF args.use_rag
    THEN ChatDocs(docs) \o sample.messages
    ELSE sample.messages

\* prepare_input, given what similarity_search has returned.
prepare_input(sample, docs) ==
    IF args.use_rag
    THEN ChatDocs(docs) \o DropLast(sample.messages, 1)
    ELSE DropLast(sample.messages, 1)

\* A slip: the response of the first sample is yielded twice.
YieldResponse_twice(out, response) ==
    IF out = <<>> THEN << response, response >> ELSE Append(out, response)

\* yield response.strip() (generate, line 71)
YieldResponse(out, response) == Append(out, response)

\* One iteration of the loop of generate (lines 51-71) on the next sample of
\* the dataset.  With --use_rag the query is read from the sample and the
\* knowledge base is searched; knowledge_base_vectors being None, the call
\* raises AttributeError.
GenerateSample ==
    /\ main_pc = "generating"
    /\ sample_idx < Len(dataset)
    /\ LET sample == dataset[sample_idx + 1] IN
       IF args.use_rag /\ ~HasColumn(disk.kind, args.instruction_field)
       THEN /\ main_pc' = "error_key"
            /\ UNCHANGED <<sample_idx, retrieved_docs, example, yielded>>
       ELSE IF args.use_rag /\ ~knowledge_base_vectors.built
       THEN /\ main_pc' = "error_none_knowledge_base"
            /\ UNCHANGED <<sample_idx, retrieved_docs, example, yielded>>
       ELSE /\ \E docs \in (IF args.use_rag
                             THEN SimilaritySearch(knowledge_base_vectors,
                                                   args.rag_top_k)
                             ELSE {<<>>}) :
                  /\ retrieved_docs' = docs
                  /\ example' = prepare_input(sample, docs)
            /\ \E raw \in RawResponses(example') :
                  yielded' = YieldResponse(yielded, Strip(raw))
            /\ sample_idx' = sample_idx + 1
            /\ main_pc' = "generating"
    /\ UNCHANGED <<args, disk, dataset, knowledge_base_vectors, responses,
                   metrics, responses_file>>

\* The decorator of generate: what main unpacks at lines 179-181, the
\* responses of the decorated function first.
track_gpu_usage(result) ==
    [responses |-> result, init_gpu_memory |-> "MB", peak_gpu_memory |-> "MB",
     total_execution_time |-> "seconds"]

\* The loop of generate has gone through the dataset; main receives the
\* responses (lines 179-181).
GenerateReturn ==
    /\ main_pc = "generating"
    /\ sample_idx = Len(dataset)
    /\ responses' = track_gpu_usage(yielded).responses
    /\ main_pc' = "generated"
    /\ UNCHANGED <<args, disk, dataset, knowledge_base_vectors, sample_idx,
                   retrieved_docs, example, yielded, metrics, responses_file>>

\* compute_metrics (lines 74-104): nothing for APPS; otherwise prediction i is
\* scored against reference i, the metric refusing lists of unequal length.
ComputeMetrics ==
    /\ main_pc = "generated"
    /\ IF args.dataset_name = << "apps" >>
       THEN /\ metrics' = [computed |-> TRUE, scored |-> FALSE, pairs |-> <<>>]
            /\ main_pc' = "metrics"
       ELSE IF ~HasColumn(disk.kind, args.reference_field)
       THEN main_pc' = "error_key" /\ UNCHANGED metrics
       ELSE LET reference_column == [i \in DOMAIN dataset |->
                                  dataset[i][args.reference_field]]
            IN  IF Len(responses) # Len(reference_column)
                THEN main_pc' = "error_mismatch" /\ UNCHANGED metrics
                ELSE /\ metrics' =
                          [computed |-> TRUE, scored |-> TRUE,
                           pairs |-> [i \in DOMAIN responses |->
                                        << responses[i], reference_column[i] >>]]
                     /\ main_pc' = "metrics"
    /\ UNCHANGED <<args, disk, dataset, knowledge_base_vectors, sample_idx,
                   retrieved_docs, example, yielded, responses, responses_file>>

\* The text of a JSON string: quotes around the characters, the quote, the
\* backslash and the newline escaped.
RECURSIVE JsonEscape(_)
JsonEscape(text) ==
    IF text = <<>> THEN <<>>
    ELSE (CASE Head(text) = NL -> << "\\", "n" >>
            [] Head(text) = "\"" -> << "\\", "\"" >>
            [] Head(text) = "\\" -> << "\\", "\\" >>
            [] OTHER -> << Head(text) >>)
         \o JsonEscape(Tail(text))

\* json.dump({"response": response}, fout)
JsonDumpResponse(text) ==
    << "{", "\"", "response", "\"", ":", " ", "\"" >>
    \o JsonEscape(text) \o << "\"", "}" >>

\* The lines 205-208: one JSON object and a newline per response.
RECURSIVE ResponsesFile(_)
ResponsesFile(list) ==
    IF list = <<>> THEN <<>>
    ELSE JsonDumpResponse(Head(list)) \o << NL >> \o ResponsesFile(Tail(list))

\* The characters of a piece of a dataset path.
Characters(piece) ==
    CASE piece = "data" -> << "d", "a", "t", "a" >>
      [] piece = "conala" -> << "c", "o", "n", "a", "l", "a" >>
      [] piece = "codealpaca" -> << "c", "o", "d", "e", "a", "l", "p", "a", "c", "a" >>
      [] piece = "apps" -> << "a", "p", "p", "s" >>
      [] OTHER -> << piece >>

\* The text of a name held in pieces, character by character.
RECURSIVE Text(_)
Text(pieces) ==
    IF pieces = <<>> THEN <<>> ELSE Characters(Head(pieces)) \o Text(Tail(pieces))

\* str(n) of a natural number, as an f-string formats it.
Digit(d) == << "0", "1", "2", "3", "4", "5", "6", "7", "8", "9" >>[d + 1]
RECURSIVE Str(_)
Str(n) == IF n < 10 THEN << Digit(n) >> ELSE Str(n \div 10) \o << Digit(n % 10) >>

\* f"{args.temperature}": the shortest text of the float, "0.2" for two
\* tenths and "1.0" for ten.
FormatFloat(tenths) == Str(tenths \div 10) \o << "." >> \o Str(tenths % 10)

\* The test of line 192: None and the empty text are false.
Truthy(path) == path # UnsetName /\ path # <<>>

\* Lines 191-193.
OutputDir(a) ==
    IF Truthy(a.peft_checkpoint_path)
    THEN a.peft_checkpoint_path \o << "/", "r", "e", "s", "u", "l", "t", "s" >>
    ELSE << "r", "u", "n", "s", "/" >> \o a.model_name
         \o << "/", "r", "e", "s", "u", "l", "t", "s" >>

\* A slip: the elif branch of --use_rag is left out.
FileSuffix_without_rag(a) ==
    Text(a.dataset_name) \o << "_", "t" >> \o FormatFloat(a.temperature)
    \o (IF a.use_icl
        THEN << "_", "i", "c", "l", "_", "n" >> \o Str(a.num_icl_examples)
             \o << "_", "s" >> \o Str(a.icl_seed)
        ELSE <<>>)

\* Lines 196-200.
FileSuffix(a) ==
    Text(a.dataset_name) \o << "_", "t" >> \o FormatFloat(a.temperature)
    \o (IF a.use_icl
        THEN << "_", "i", "c", "l", "_", "n" >> \o Str(a.num_icl_examples)
             \o << "_", "s" >> \o Str(a.icl_seed)
        ELSE IF a.use_rag
        THEN << "_", "r", "a", "g", "_", "k" >> \o Str(a.rag_top_k)
        ELSE <<>>)

\* Lines 202 and 205: the paths of the two files.
MetricsPath(dir, suffix) ==
    dir \o << "/", "m", "e", "t", "r", "i", "c", "s", "_" >> \o suffix
    \o << ".", "j", "s", "o", "n", "l" >>

ResponsesPath(dir, suffix) ==
    dir \o << "/", "r", "e", "s", "p", "o", "n", "s", "e", "s", "_" >> \o suffix
    \o << ".", "j", "s", "o", "n", "l" >>

\* main, lines 191-208: the output directory and the file suffix are made,
\* and the metrics and the responses are written.
WriteFiles ==
    /\ main_pc = "metrics"
    /\ output_dir' = OutputDir(args)
    /\ file_suffix' = FileSuffix(args)
    /\ opened' = << MetricsPath(output_dir', file_suffix'),
                    ResponsesPath(output_dir', file_suffix') >>
    /\ responses_file' = ResponsesFile(responses)
    /\ main_pc' = "done"
    /\ UNCHANGED <<args, disk, dataset, knowledge_base_vectors, sample_idx,
                   retrieved_docs, example, yielded, responses, metrics>>

----------------------------------------------------------------------------
(* test_conala_code_generation                                             *)

\* The stop strings of the CoNaLa generation and the padding token.  Here a
\* token is the piece of text it stands for.
EOF_STRINGS == << << "<|endoftext|>" >>, << "</s>" >> >>
PAD == "<pad>"
ConalaSpecialTokens == {PAD, "<|endoftext|>", "</s>"}

\* text.replace(old, new) for a one-character old.
RECURSIVE Replace(_, _, _)
Replace(text, old, new) ==
    IF text = <<>> THEN <<>>
    ELSE (IF Head(text) = old THEN new ELSE << Head(text) >>)
         \o Replace(Tail(text), old, new)

\* tokenizer.batch_decode(..., skip_special_tokens=True) of one row.  With
\* InCoder the pad tokens are not filtered (src/test.py:132).
DecodeSkippingSpecial(ids, incoder) ==
    LET dropped == IF incoder THEN ConalaSpecialTokens \ {PAD} ELSE ConalaSpecialTokens
    IN  SelectSeq(ids, LAMBDA t : t \notin dropped)

\* preprocess_function_dec / preprocess_function_encdec: the intent and a
\* newline, padded to the input length (on the left for a decoder), and the
\* snippet padded to the target length.
Preprocess(row, model_type) ==
    [input_ids |-> IF model_type = "decoder"
                   THEN << PAD, row.rewritten_intent, NL >>
                   ELSE << row.rewritten_intent, NL, PAD >>,
     labels |-> row.snippet \o [i \in 1..(3 - Len(row.snippet)) |-> PAD]]

\* The rows of the CoNaLa test split the runs are drawn from.
ConalaPool ==
    { [rewritten_intent |-> "i1", snippet |-> << "s1" >>],
      [rewritten_intent |-> "i2", snippet |-> << "s2", NL, "t" >>] }

\* What model.generate may return for one row of input: the new tokens take
\* up the intent, on one line or on two, and end with a stop string; a
\* decoder returns them after the input, an encoder-decoder alone.
Generations(inputs, model_type) ==
    LET intent == IF model_type = "decoder" THEN inputs[2] ELSE inputs[1]
        stop == EOF_STRINGS[2]
        new == { << "p", intent >> \o stop, << NL, "p", NL, intent >> \o stop }
    IN  {(IF model_type = "decoder" THEN inputs ELSE <<>>) \o g : g \in new}

\* Bounds: the size of the test split and the largest --batch_size.
MaxConalaTest == 3
MaxBatchSize == 2

ConalaIdle ==
    /\ conala_args = [batch_size |-> 1, model_type |-> "decoder", incoder |-> FALSE]
    /\ test_dataset = <<>>
    /\ batch_start = 0
    /\ predictions = <<>>
    /\ references = <<>>
    /\ fpred = <<>>
    /\ fref = <<>>
    /\ conala_pc = "idle"

\* The state before the loop over the data loader (line 111): the test split
\* is preprocessed, the lists are empty.
ConalaInit ==
    /\ \E b \in 1..MaxBatchSize, t \in {"decoder", "encoder-decoder"}, i \in BOOLEAN :
          /\ conala_args = [batch_size |-> b, model_type |-> t, incoder |-> i]
          /\ \E rows \in SeqsUpTo(ConalaPool, MaxConalaTest) :
                test_dataset = [j \in DOMAIN rows |-> Preprocess(rows[j], t)]
    /\ batch_start = 0
    /\ predictions = <<>>
    /\ references = <<>>
    /\ fpred = <<>>
    /\ fref = <<>>
    /\ conala_pc = "loop"

\* A slip: the data loader drops a final batch that is not full.
LoaderExhausted_drop_last(start, batch_size, n) == start + batch_size > n

\* DataLoader(test_dataset, batch_size=...): the loop ends when every row
\* has been served, the last batch holding the rows that remain.
LoaderExhausted(start, batch_size, n) == start >= n

\* One iteration of the loop (lines 111-135): the next batch is generated
\* and decoded, predictions and references are extended row by row.
GenerateBatch ==
    /\ conala_pc = "loop"
    /\ ~LoaderExhausted(batch_start, conala_args.batch_size, Len(test_dataset))
    /\ LET last == Min(batch_start + conala_args.batch_size, Len(test_dataset))
           batch == SubSeq(test_dataset, batch_start + 1, last)
           shape1 == Len(batch[1].input_ids)
       IN
       /\ \E batch_generation \in
               [DOMAIN batch -> UNION {Generations(batch[r].input_ids,
                                                   conala_args.model_type) :
                                          r \in DOMAIN batch}] :
             /\ \A r \in DOMAIN batch :
                   batch_generation[r] \in
                       Generations(batch[r].input_ids, conala_args.model_type)
             /\ LET batch_generated_tokens ==
                        [r \in DOMAIN batch |->
                            IF conala_args.model_type = "decoder"
                            THEN DecodeSkippingSpecial(
                                     DropFirst(batch_generation[r], shape1),
                                     conala_args.incoder)
                            ELSE DecodeSkippingSpecial(batch_generation[r],
                                                       conala_args.incoder)]
                IN  predictions' = predictions \o batch_generated_tokens
       /\ LET decoded == [r \in DOMAIN batch |->
                            DecodeSkippingSpecial(batch[r].labels, conala_args.incoder)]
              batch_references ==
                  IF conala_args.incoder
                  THEN [r \in DOMAIN batch |-> Replace(decoded[r], PAD, <<>>)]
                  ELSE decoded
          IN  references' = references \o batch_references
       /\ batch_start' = last
    /\ UNCHANGED <<conala_args, test_dataset, fpred, fref, conala_pc>>

\* The lines 148-150: for each triple of zip(predictions, references,
\* test_dataset) a line is written to each file, newlines turned to spaces.
RECURSIVE WriteLines(_, _)
WriteLines(texts, count) ==
    IF count = 0 THEN <<>>
    ELSE Replace(Head(texts), NL, << " " >>) \o << NL >>
         \o WriteLines(Tail(texts), count - 1)

\* The export after the loop (lines 143-150).
ExportPredictions ==
    /\ conala_pc = "loop"
    /\ LoaderExhausted(batch_start, conala_args.batch_size, Len(test_dataset))
    /\ LET zipped == Min(Min(Len(predictions), Len(references)), Len(test_dataset)) IN
       /\ fpred' = WriteLines(predictions, zipped)
       /\ fref' = WriteLines(references, zipped)
    /\ conala_pc' = "done"
    /\ UNCHANGED <<conala_args, test_dataset, batch_start, predictions, references>>

----------------------------------------------------------------------------
(* Specifications                                                          *)

InitBlock == BlockInit /\ StopIdle /\ OdexIdle /\ MainIdle /\ ConalaIdle

NextBlock == RemoveLastBlock /\ UNCHANGED <<stopVars, odexVars, mainVars, conalaVars>>

SpecBlock == InitBlock /\ [][NextBlock]_vars

InitStop == StopInit /\ BlockIdle /\ OdexIdle /\ MainIdle /\ ConalaIdle

NextStop ==
    \/ GenerateStep /\ UNCHANGED <<blockVars, odexVars, mainVars, conalaVars>>
    \/ SplitGenerated /\ UNCHANGED <<blockVars, odexVars, mainVars, conalaVars>>

SpecStop == InitStop /\ [][NextStop]_vars

InitOdex == OdexInit /\ BlockIdle /\ StopIdle /\ MainIdle /\ ConalaIdle

NextOdex == LoadOdexTestDataset /\ UNCHANGED <<blockVars, stopVars, mainVars, conalaVars>>

SpecOdex == InitOdex /\ [][NextOdex]_vars

InitMain == MainInit /\ BlockIdle /\ StopIdle /\ OdexIdle /\ ConalaIdle

NextMain ==
    \/ Configure /\ UNCHANGED <<fileVars, blockVars, stopVars, odexVars, conalaVars>>
    \/ BuildIclPrompt /\ UNCHANGED <<fileVars, blockVars, stopVars, odexVars, conalaVars>>
    \/ BuildKnowledgeBase /\ UNCHANGED <<fileVars, blockVars, stopVars, odexVars, conalaVars>>
    \/ NoAugmentation /\ UNCHANGED <<fileVars, blockVars, stopVars, odexVars, conalaVars>>
    \/ GenerateSample /\ UNCHANGED <<fileVars, blockVars, stopVars, odexVars, conalaVars>>
    \/ GenerateReturn /\ UNCHANGED <<fileVars, blockVars, stopVars, odexVars, conalaVars>>
    \/ ComputeMetrics /\ UNCHANGED <<fileVars, blockVars, stopVars, odexVars, conalaVars>>
    \/ WriteFiles /\ UNCHANGED <<blockVars, stopVars, odexVars, conalaVars>>

SpecMain == InitMain /\ [][NextMain]_vars

\* main, entered with any of the arguments that name the output files.
InitOutput == OutputInit /\ BlockIdle /\ StopIdle /\ OdexIdle /\ ConalaIdle

SpecOutput == InitOutput /\ [][NextMain]_vars

InitConala == ConalaInit /\ BlockIdle /\ StopIdle /\ OdexIdle /\ MainIdle

NextConala ==
    \/ GenerateBatch /\ UNCHANGED <<blockVars, stopVars, odexVars, mainVars>>
    \/ ExportPredictions /\ UNCHANGED <<blockVars, stopVars, odexVars, mainVars>>

SpecConala == InitConala /\ [][NextConala]_vars

----------------------------------------------------------------------------
(* Claims about remove_last_block (SpecBlock)                              *)

\* Some marker of HUMAN_EVAL_EOF_STRINGS occurs in s at position i.
MarkerAt(s, i) ==
    \E k \in DOMAIN HUMAN_EVAL_EOF_STRINGS : OccursAt(s, i, HUMAN_EVAL_EOF_STRINGS[k])

HasMarker(s) == \E i \in 1..Len(s) : MarkerAt(s, i)

\* The start of the last marker occurrence of a text that has one.
LastMarkerStart(s) ==
    CHOOSE i \in 1..Len(s) :
        MarkerAt(s, i) /\ \A j \in (i + 1)..Len(s) : ~MarkerAt(s, j)

IsPrefix(p, s) == Len(p) <= Len(s) /\ SubSeq(s, 1, Len(p)) = p

\* C2: for every input that contains a marker, remove_last_block returns the
\* input cut at the start of its last marker occurrence: the last marker and
\* what follows it are dropped, what precedes it is kept unchanged.
C2_TruncatesAtLastMarker ==
    (block_pc = "returned" /\ HasMarker(string)) =>
        block_result = SubSeq(string, 1, LastMarkerStart(string) - 1)

\* C2 witness: a text with two marker occurrences was cut at the second, the
\* first marker staying in the result.
C2_Witness ==
    /\ block_pc = "returned"
    /\ \E i, j \in 1..Len(string) : i < j /\ MarkerAt(string, i) /\ MarkerAt(string, j)
    /\ HasMarker(block_result)
    /\ Len(block_result) < Len(string)

\* C10: an input without any marker gives the empty text, and for every
\* input the result is a prefix of the input.
C10_NoMarkerGivesEmpty ==
    block_pc = "returned" =>
        /\ (~HasMarker(string) => block_result = <<>>)
        /\ IsPrefix(block_result, string)

\* C10 witness: a non-empty text without marker was reduced to the empty text.
C10_Witness ==
    /\ block_pc = "returned"
    /\ string # <<>>
    /\ ~HasMarker(string)
    /\ block_result = <<>>

----------------------------------------------------------------------------
(* Claims about EndOfFunctionCriteria (SpecStop)                           *)

\* The decoded text of what row r has generated after the prompt.
GeneratedText(r) == Decode(DropFirst(input_ids[r], start_length), FALSE)

\* The decoded text of the prompt of row r.
PromptText(r) == Decode(SubSeq(input_ids[r], 1, start_length), FALSE)

Rows == 1..NUM_RETURN_SEQUENCES

\* C1: the criterion answers true exactly when the generated part of every
\* row of the batch contains a marker; the prompt does not count, and one row
\* without marker in its generated part makes the answer false.
C1_TrueIffAllRowsHaveMarker ==
    (gen_pc # "generating" \/ Len(input_ids[1]) > start_length) =>
        (criteria_result <=> \A r \in Rows : HasMarker(GeneratedText(r)))

\* C1 witness: the prompt holds a marker and one row has generated one, the
\* other row has not, and the criterion has answered false.
C1_Witness ==
    /\ gen_pc # "idle"
    /\ Len(input_ids[1]) > start_length
    /\ HasMarker(PromptText(1))
    /\ HasMarker(GeneratedText(1))
    /\ ~HasMarker(GeneratedText(2))
    /\ criteria_result = FALSE

\* C6: after a generation that the criterion stopped, the list of every
\* returned sequence ends with the empty text: the generated text ends with
\* a marker and nothing follows it.
C6_LastStringIsEmpty ==
    (gen_pc = "stopped_by_criteria" /\ gen_string_lists # <<>>) =>
        \A r \in Rows :
            /\ Len(gen_string_lists[r]) >= 3
            /\ gen_string_lists[r][Len(gen_string_lists[r])] = <<>>

----------------------------------------------------------------------------
(* Claims about load_odex_test_dataset (SpecOdex)                          *)

\* The positions of the ODEX test split whose intent is no "nl" value of the
\* CoNaLa train split.
KeptPositions ==
    {i \in DOMAIN odex_test :
        \A j \in DOMAIN conala_train_nl : odex_test[i].intent # conala_train_nl[j]}

\* The r-th smallest kept position.
KeptPosition(r) ==
    CHOOSE i \in KeptPositions : Cardinality({j \in KeptPositions : j < i}) = r - 1

\* C5: no returned example has an intent equal to an "nl" value of the train
\* split, and the returned dataset is exactly the test examples whose intent
\* is no such value, in their original order.
C5_NoLeakAllOthersKept ==
    odex_pc = "returned" =>
        /\ \A r \in DOMAIN odex_dataset : \A j \in DOMAIN conala_train_nl :
              odex_dataset[r].intent # conala_train_nl[j]
        /\ Len(odex_dataset) = Cardinality(KeptPositions)
        /\ \A r \in DOMAIN odex_dataset : odex_dataset[r] = odex_test[KeptPosition(r)]

\* C5 witness: an example was removed from between two examples that were
\* kept.
C5_Witness ==
    /\ odex_pc = "returned"
    /\ Len(odex_test) = 3
    /\ KeptPositions = {1, 3}
    /\ odex_dataset = << odex_test[1], odex_test[3] >>
    /\ odex_test[1] # odex_test[3]

----------------------------------------------------------------------------
(* Claims about generate.py (SpecMain)                                     *)

\* The part of a path after its last "/" (the whole path when it has none).
AfterLastSlash(path) ==
    LET slashes == {i \in DOMAIN path : path[i] = "/"}
        last == IF slashes = {} THEN 0
                ELSE CHOOSE i \in slashes : \A j \in slashes : j <= i
    IN  SubSeq(path, last + 1, Len(path))

\* C4: the dataset name is the last "/"-separated component of
\* dataset_name_or_path; "conala" gives 128, "nl", "cmd"; "codealpaca" gives
\* 512, "prompt", "completion"; every other name gives 1024, "question",
\* "solutions"; the three fields are set before any sample is generated.
C4_ConfigurationFromDatasetName ==
    /\ main_pc \notin {"idle", "start"} =>
          /\ args.dataset_name = AfterLastSlash(args.dataset_name_or_path)
          /\ << args.max_new_tokens, args.instruction_field, args.reference_field >> =
                (CASE args.dataset_name = << "conala" >> -> << 128, "nl", "cmd" >>
                   [] args.dataset_name = << "codealpaca" >> ->
                        << 512, "prompt", "completion" >>
                   [] OTHER -> << 1024, "question", "solutions" >>)
    /\ (sample_idx > 0 \/ yielded # <<>>) =>
          /\ args.max_new_tokens # UnsetNumber
          /\ args.instruction_field # None
          /\ args.reference_field # None

\* C4 witness: a sample has been generated under the configuration that
\* the path data/codealpaca gives.
C4_Witness ==
    /\ sample_idx > 0
    /\ args.dataset_name_or_path = << "data", "/", "codealpaca" >>
    /\ args.max_new_tokens = 512

\* The number of newline characters of a text.
RECURSIVE CountNewlines(_)
CountNewlines(text) ==
    IF text = <<>> THEN 0
    ELSE (IF Head(text) = NL THEN 1 ELSE 0) + CountNewlines(Tail(text))

\* The question of a test sample: the content of its last message but one.
Question(row) == row.messages[Len(row.messages) - 1].content

\* C3: a run over a test split of N samples gives exactly N responses, the
\* i-th generated from the i-th sample; compute_metrics pairs response i with
\* reference i; the responses file holds N lines, line i being the JSON object
\* of response i.
C3_OneResponsePerSample ==
    LET N == Len(disk.test) IN
    /\ main_pc \in {"generated", "metrics", "done"} =>
          /\ Len(responses) = N
          /\ \A i \in 1..N : InList(Question(disk.test[i]), responses[i])
    /\ (main_pc \in {"metrics", "done"} /\ metrics.scored) =>
          /\ Len(metrics.pairs) = N
          /\ \A i \in 1..N :
                metrics.pairs[i] = << responses[i], disk.test[i][args.reference_field] >>
    /\ main_pc = "done" =>
          /\ CountNewlines(responses_file) = N
          /\ LET lines == StrSplit(responses_file, NL) IN
             /\ Len(lines) = N + 1
             /\ lines[N + 1] = <<>>
             /\ \A i \in 1..N : lines[i] = JsonDumpResponse(responses[i])

\* C3 witness: a run over two different samples has written its file, and
\* one of the responses holds a newline.
C3_Witness ==
    /\ main_pc = "done"
    /\ Len(disk.test) = 2
    /\ disk.test[1] # disk.test[2]
    /\ metrics.scored
    /\ \E i \in 1..2 : InList(NL, responses[i])

\* C7: whenever prepare_input is about to search the knowledge base (the
\* next sample is generated with --use_rag and its query can be read), the
\* knowledge base has been built: knowledge_base_vectors is not None.
C7_KnowledgeBaseBuiltBeforeSearch ==
    (/\ main_pc = "generating"
     /\ sample_idx < Len(dataset)
     /\ args.use_rag
     /\ HasColumn(disk.kind, args.instruction_field))
        => knowledge_base_vectors.built

\* All but the last element of a list.
Front(list) == [i \in 1..(Len(list) - 1) |-> list[i]]

\* The prompt of the sample generated last is built as prepare_input is said
\* to build it.
PromptStructure ==
    LET sample == dataset[sample_idx]
        original == disk.test[sample_idx]
        n == args.num_icl_examples
        d == Len(retrieved_docs)
    IN
    /\ ~args.use_rag => example = Front(sample.messages)
    /\ (~args.use_rag /\ ~args.use_icl) => example = Front(original.messages)
    /\ (~args.use_rag /\ args.use_icl) =>
          /\ Len(example) = 2 * n + Len(original.messages) - 1
          /\ \A j \in 1..(2 * n) :
                example[j].role = (IF j % 2 = 1 THEN "user" ELSE "assistant")
          /\ SubSeq(example, 2 * n + 1, Len(example)) = Front(original.messages)
    /\ args.use_rag =>
          /\ Len(example) = 2 * d + Len(sample.messages) - 1
          /\ \A j \in 1..d :
                /\ example[2 * j - 1] = Msg("user", retrieved_docs[j].page_content)
                /\ example[2 * j] = Msg("assistant", retrieved_docs[j].metadata.code)
          /\ SubSeq(example, 2 * d + 1, Len(example)) = Front(sample.messages)

\* C8: (as stated) the prompt built for a sample never contains the sample's
\* last message (the reference answer), and it has the stated structure.
C8_PromptNeverContainsAnswer ==
    sample_idx > 0 =>
        /\ ~InList(LastOf(dataset[sample_idx].messages), example)
        /\ PromptStructure

\* The contents a train row can bring into a prompt.
TrainContents(row) ==
    {row[args.instruction_field], row[args.reference_field], IclReference(row)}

\* C8: (amended) the prompt has the stated structure (the sample's messages
\* without the one at the last position, after the ICL messages or the
\* messages of the retrieved documents); it holds no message equal to the
\* sample's last one unless such a message stands earlier in the sample or
\* a train row has the content of the reference answer.
C8_PromptDropsLastPosition ==
    sample_idx > 0 =>
        /\ PromptStructure
        /\ LET answer == LastOf(dataset[sample_idx].messages) IN
           (/\ ~InList(answer, Front(disk.test[sample_idx].messages))
            /\ (args.use_icl \/ args.use_rag) =>
                  \A j \in DOMAIN disk.train :
                      answer.content \notin TrainContents(disk.train[j]))
              => ~InList(answer, example)

\* C8 witness: a prompt was built from two retrieved documents and a sample
\* of three messages.
C8_Witness ==
    /\ sample_idx > 0
    /\ args.use_rag
    /\ Len(retrieved_docs) = 2
    /\ Len(dataset[sample_idx].messages) = 3
    /\ Len(example) = 6

----------------------------------------------------------------------------
(* Claims about test_conala_code_generation (SpecConala)                   *)

\* The intent and the snippet of the i-th test sample, read back from its
\* features, the snippet with its newlines turned to spaces.
IntentOf(i) ==
    LET ids == test_dataset[i].input_ids IN
    IF conala_args.model_type = "decoder" THEN ids[2] ELSE ids[1]

SnippetLineOf(i) ==
    LET snippet == SelectSeq(test_dataset[i].labels, LAMBDA t : t # PAD) IN
    [j \in DOMAIN snippet |-> IF snippet[j] = NL THEN " " ELSE snippet[j]]

\* C9: predictions.txt and references.txt have the same number of lines,
\* the number of test samples, those of a final partial batch included; line
\* i of both files belongs to test sample i; no written text holds a newline
\* of its own, so each sample is exactly one line.
C9_OneLinePerSample ==
    conala_pc = "done" =>
        LET N == Len(test_dataset)
            pred_lines == StrSplit(fpred, NL)
            ref_lines == StrSplit(fref, NL)
        IN
        /\ CountNewlines(fpred) = N
        /\ CountNewlines(fref) = N
        /\ Len(pred_lines) = N + 1 /\ pred_lines[N + 1] = <<>>
        /\ Len(ref_lines) = N + 1 /\ ref_lines[N + 1] = <<>>
        /\ \A i \in 1..N :
              /\ InList(IntentOf(i), pred_lines[i])
              /\ ref_lines[i] = SnippetLineOf(i)

\* C9 witness: three samples were served in batches of two, the last batch
\* holding one sample, and a prediction and a reference of several lines
\* were written.
C9_Witness ==
    /\ conala_pc = "done"
    /\ Len(test_dataset) = 3
    /\ conala_args.batch_size = 2
    /\ InList(NL, predictions[3])
    /\ InList(NL, references[3])
    /\ CountNewlines(fpred) = 3

----------------------------------------------------------------------------
(* Claims about the output files of generate.py (SpecOutput)               *)

\* The texts of the numbers the arguments take, written out.
NumberText(n) ==
    CASE n = 1 -> << "1" >>
      [] n = 2 -> << "2" >>
      [] n = 3 -> << "3" >>
      [] n = 4 -> << "4" >>
      [] n = 7 -> << "7" >>
      [] n = 42 -> << "4", "2" >>

TemperatureText(tenths) ==
    CASE tenths = 2 -> << "0", ".", "2" >>
      [] tenths = 10 -> << "1", ".", "0" >>

\* The directory and the suffix the run in progress is to use: the
\* directory of the PEFT checkpoint when one is given, that of the model
\* name otherwise; the ICL extension when use_icl is set, whether or not
\* use_rag is set too, else the RAG extension when use_rag is set.
StatedDir ==
    IF args.peft_checkpoint_path \in PeftCheckpoints
    THEN args.peft_checkpoint_path \o << "/", "r", "e", "s", "u", "l", "t", "s" >>
    ELSE << "r", "u", "n", "s", "/" >> \o AfterLastSlash(args.model_name_or_path)
         \o << "/", "r", "e", "s", "u", "l", "t", "s" >>

StatedSuffix ==
    LET base == Text(args.dataset_name) \o << "_", "t" >>
                \o TemperatureText(args.temperature)
        icl == << "_", "i", "c", "l", "_", "n" >> \o NumberText(args.num_icl_examples)
               \o << "_", "s" >> \o NumberText(args.icl_seed)
        rag == << "_", "r", "a", "g", "_", "k" >> \o NumberText(args.rag_top_k)
    IN  CASE args.use_icl -> base \o icl
          [] ~args.use_icl /\ args.use_rag -> base \o rag
          [] ~args.use_icl /\ ~args.use_rag -> base

\* The kind of a run: an ICL run uses the ICL suffix, also with use_rag set.
RunKind(a) == IF a.use_icl THEN "icl" ELSE IF a.use_rag THEN "rag" ELSE "plain"

\* The runs of another kind than the run in progress, with its output
\* directory, dataset and temperature, and the files such a run writes.
RunsOfOtherKind ==
    { a \in { [args EXCEPT !.use_icl = icl, !.icl_seed = seed,
                           !.num_icl_examples = n, !.use_rag = rag,
                           !.rag_top_k = k] :
                icl \in BOOLEAN, seed \in IclSeeds,
                n \in (1..MaxShots) \cup {DEFAULT_NUM_ICL_EXAMPLES},
                rag \in BOOLEAN,
                k \in (1..MaxShots) \cup {DEFAULT_RAG_TOP_K} } :
        RunKind(a) # RunKind(args) }

FilesOf(a) ==
    { MetricsPath(OutputDir(a), FileSuffix(a)),
      ResponsesPath(OutputDir(a), FileSuffix(a)) }

\* C11: the metrics and the responses files are written to
\* "<peft_checkpoint_path>/results" when a PEFT checkpoint is given and to
\* "runs/<model_name>/results" otherwise, as "metrics_<suffix>.jsonl" and
\* "responses_<suffix>.jsonl", the suffix being "<dataset_name>_t<temperature>"
\* extended by "_icl_n<num_icl_examples>_s<icl_seed>" when use_icl is set
\* (also when use_rag is set too), else by "_rag_k<rag_top_k>" when use_rag
\* is set, else by nothing; no run of another kind (plain, ICL, RAG) with the
\* same output directory, dataset and temperature writes to either file.
C11_OutputFilesNamedByRun ==
    main_pc = "done" =>
        /\ output_dir = StatedDir
        /\ file_suffix = StatedSuffix
        /\ opened =
              << StatedDir \o << "/", "m", "e", "t", "r", "i", "c", "s", "_" >>
                   \o StatedSuffix \o << ".", "j", "s", "o", "n", "l" >>,
                 StatedDir \o << "/", "r", "e", "s", "p", "o", "n", "s", "e", "s", "_" >>
                   \o StatedSuffix \o << ".", "j", "s", "o", "n", "l" >> >>
        /\ \A other \in RunsOfOtherKind :
              FilesOf(other) \cap { opened[1], opened[2] } = {}

\* C11 witness: an ICL run of two examples with seed 42 on "data/conala" at
\* temperature 0.2 with the PEFT checkpoint "ckpt/a" has generated a
\* response and written it to
\* "ckpt/a/results/responses_conala_t0.2_icl_n2_s42.jsonl".
C11_Witness ==
    /\ main_pc = "done"
    /\ args.use_icl /\ ~args.use_rag
    /\ Len(responses) = 1
    /\ responses_file # <<>>
    /\ opened[2] =
          << "c", "k", "p", "t", "/", "a", "/", "r", "e", "s", "u", "l", "t", "s",
             "/", "r", "e", "s", "p", "o", "n", "s", "e", "s", "_",
             "c", "o", "n", "a", "l", "a", "_", "t", "0", ".", "2",
             "_", "i", "c", "l", "_", "n", "2", "_", "s", "4", "2",
             ".", "j", "s", "o", "n", "l" >>

====
